---- MODULE Spec2Model ----
(***************************************************************************)
(* Model of BABYLON's promise polyfill (src/Tools/babylon.promise.ts):     *)
(* InternalPromise, FulFillmentAgregator and the static helpers.           *)
(*                                                                         *)
(* The heap of InternalPromise objects is the sequence `nodes`; a node is  *)
(* named by its index.  Every public operation is one action: all the      *)
(* continuation calls it triggers run synchronously inside it, as in the   *)
(* code.  They are computed by a machine with an explicit call stack       *)
(* (Run), one step operator per function of the class.                     *)
(***************************************************************************)
EXTENDS Integers, Sequences, FiniteSets, TLC

(***************************************************************************)
(* Bounds of the model.                                                    *)
(***************************************************************************)
MaxNodes == 4      \* InternalPromise objects ever allocated
MaxAllNodes == 5   \* the same, in the specifications that call all
MaxThenNodes == 3  \* the same, in SpecThen and SpecResolver
MaxVal == 2        \* fulfilment values 1..MaxVal
MaxReason == 2     \* rejection reasons 1..MaxReason
MaxSettle == 2     \* calls of resolver callbacks kept after construction
MaxAllSettle == 3  \* the same, in SpecAllSettle
MaxInputs == 2     \* length of the array handed to all
MaxResolvers == 2  \* promises built by the constructor, in SpecSplice
MaxAlls == 1       \* calls of all
MaxDepth == 16     \* frames on the call stack of one operation

(***************************************************************************)
(* JavaScript values.  Every value is a record [k, n] so that any two      *)
(* values can be compared: k is the kind, n the payload.                   *)
(***************************************************************************)
Undef == [k |-> "undefined", n |-> 0]
Null == [k |-> "null", n |-> 0]
Num(i) == [k |-> "number", n |-> i]
Str(i) == [k |-> "string", n |-> i]
PromRef(p) == [k |-> "promise", n |-> p]
ArrRef(a) == [k |-> "array", n |-> a]
Hole == [k |-> "hole", n |-> 0]
Bool(b) == [k |-> "boolean", n |-> IF b THEN 1 ELSE 0]

\* no exception in flight
NoExc == [k |-> "none", n |-> 0]

Vals == {Num(i) : i \in 1..MaxVal}
Reasons == {Str(i) : i \in 1..MaxReason}
\* the value a then-callback returns, when it returns a plain value
RetVal == Num(0)
\* the message of the Error a callback or resolver throws
ThrownMsg == Str(0)
\* "Promise is not fulfilled" and "Promise is not rejected"
NotFulfilledMsg == Str(-1)
NotRejectedMsg == Str(-2)

\* `x !== undefined && x !== null`
IsPresent(v) == v.k # "undefined" /\ v.k # "null"
\* `(<InternalPromise<T>>x)._state !== undefined`
IsPromise(v) == v.k = "promise"

(***************************************************************************)
(* Callbacks.  A callback is described by what it does when invoked:       *)
(*   none   - no callback was supplied (undefined)                         *)
(*   ret    - returns v (undefined, a plain value, or a promise)           *)
(*   throw  - throws new Error(v)                                          *)
(*   agg    - the closure _RegisterForFulfillment builds for slot i of     *)
(*            aggregator v.n                                               *)
(*   then   - calls then on the promise v.n, registering a callback g that *)
(*            returns nothing as onFulfilled (i = 0) or onRejected (i = 1) *)
(***************************************************************************)
NoCb == [k |-> "none", v |-> Undef, i |-> 0]
RetCb(v) == [k |-> "ret", v |-> v, i |-> 0]
ThrowCb == [k |-> "throw", v |-> ThrownMsg, i |-> 0]
AggCb(a, i) == [k |-> "agg", v |-> ArrRef(a), i |-> i]
ThenCb(p, i) == [k |-> "then", v |-> PromRef(p), i |-> i]

(***************************************************************************)
(* class InternalPromise: the fields, plus history (not program state):    *)
(* fCalls/rCalls count the invocations of the node's callbacks, fArg/rArg  *)
(* hold the argument of the latest one; made names the operation that      *)
(* built the node ("new": the constructor with a resolver, whose two       *)
(* callbacks the caller may keep; "then"; "resolve"; "all"); parent is the *)
(* node then was called on and thenRet the node that call returned.        *)
(***************************************************************************)
NewNode(arr) ==
    [state |-> "Pending", result |-> Undef, reason |-> Undef,
     children |-> arr, onF |-> NoCb, onR |-> NoCb, consumed |-> FALSE,
     fCalls |-> 0, fArg |-> Undef, rCalls |-> 0, rArg |-> Undef,
     made |-> "then", parent |-> 0, thenRet |-> 0]

\* class FulFillmentAgregator; promises remembers the argument of all
NewAgg ==
    [count |-> 0, target |-> 0, rootPromise |-> 0, results |-> <<>>,
     promises |-> <<>>]

\* results[index] = value on a JavaScript array: slots skipped are holes
RECURSIVE Pad(_, _)
Pad(s, len) == IF Len(s) >= len THEN s ELSE Pad(Append(s, Hole), len)
SetAt(s, index, value) == [Pad(s, index + 1) EXCEPT ![index + 1] = value]

\* last is the latest public call, as its caller saw it: the call made, the
\* value returned and the callbacks that ran during it, in order
\* global is what window.Promise holds: "undefined", "native" (the host's
\* own Promise) or "InternalPromise"
VARIABLES nodes, aggs, settles, lastExc, last, global
vars == <<nodes, aggs, settles, lastExc, last, global>>

(***************************************************************************)
(* The machine that runs one public operation to its end.  The code is     *)
(* synchronous and recursive: the machine keeps the call stack explicitly. *)
(* A frame is one activation of a function: f names the function, pc the   *)
(* place it has reached, this/x/cbF/cbR/ps its arguments, arr and i the    *)
(* array object and position of its for-of loop, aux a local.  m.ret is    *)
(* the value the last finished call returned, m.exc the exception in       *)
(* flight.  During an operation a children array is an object of its own   *)
(* (arrs): a loop keeps iterating the array object it started on, also     *)
(* when the node's _children field is reassigned or the array emptied in   *)
(* place.  Between operations every node owns exactly one array, which is  *)
(* stored inline.                                                          *)
(***************************************************************************)
Frame(f, this, x) ==
    [f |-> f, pc |-> "start", this |-> this, x |-> x, arr |-> 0, i |-> 0,
     aux |-> Undef, cbF |-> NoCb, cbR |-> NoCb, ps |-> <<>>]

Load(fr) ==
    [nodes |-> [p \in 1..Len(nodes) |-> [nodes[p] EXCEPT !.children = p]],
     arrs |-> [p \in 1..Len(nodes) |-> nodes[p].children],
     aggs |-> aggs, stack |-> <<fr>>, ret |-> Undef, exc |-> NoExc,
     ovf |-> FALSE, call |-> fr, log |-> <<>>, global |-> global]
Store(m) ==
    [p \in 1..Len(m.nodes) |->
        [m.nodes[p] EXCEPT !.children = m.arrs[m.nodes[p].children]]]

Pop(stack) == SubSeq(stack, 1, Len(stack) - 1)
\* the running function moves on to frame fr
Goto(m, fr) == [m EXCEPT !.stack[Len(m.stack)] = fr]
\* the running function, left at fr, calls the function of frame callee
Call(m, fr, callee) ==
    [m EXCEPT !.stack = Append([@ EXCEPT ![Len(@)] = fr], callee)]
\* return v
Return(m, v) == [m EXCEPT !.stack = Pop(@), !.ret = v]
\* throw e: the frame is left, e is in flight
Throw(m, e) == [m EXCEPT !.stack = Pop(@), !.exc = e]

\* function f runs for promise p with argument x (history)
Note(m, p, f, x) ==
    [m EXCEPT !.log = Append(@, [p |-> p, f |-> f, x |-> x])]

\* new InternalPromise<T>() with no resolver
Fresh(m) == Len(m.nodes) + 1
Alloc(m) ==
    [m EXCEPT !.nodes = Append(m.nodes, NewNode(Len(m.arrs) + 1)),
              !.arrs = Append(m.arrs, <<>>)]

\* array.push(p)
Push(m, arr, p) == [m EXCEPT !.arrs[arr] = Append(m.arrs[arr], p)]

\* the call a callback of kind then makes: p.then(g) or p.then(undefined, g)
Reentry(cb) ==
    [Frame("then", cb.v.n, Undef)
       EXCEPT !.cbF = IF cb.i = 0 THEN RetCb(Undef) ELSE NoCb,
              !.cbR = IF cb.i = 1 THEN RetCb(Undef) ELSE NoCb]

\* this._onFulfilled(value): the callback of node fr.this runs with fr.x
OnFulfilledStep(m, fr) ==
    LET cb == m.nodes[fr.this].onF
        a == cb.v.n
        m1 == [Note(m, fr.this, "onFulfilled", fr.x)
                 EXCEPT !.nodes[fr.this].fCalls = @ + 1,
                        !.nodes[fr.this].fArg = fr.x]
        m2 == [m1 EXCEPT !.aggs[a].results = SetAt(@, cb.i, fr.x),
                         !.aggs[a].count = @ + 1]
    IN  CASE fr.pc = "done" -> Return(m, Null)
          [] fr.pc = "start" /\ cb.k = "ret" -> Return(m1, cb.v)
          [] fr.pc = "start" /\ cb.k = "throw" -> Throw(m1, cb.v)
          [] fr.pc = "start" /\ cb.k = "agg" ->
                IF m2.aggs[a].count = m2.aggs[a].target
                THEN Call(m2, [fr EXCEPT !.pc = "done"],
                          Frame("_resolve", m2.aggs[a].rootPromise, ArrRef(a)))
                ELSE Return(m2, Null)
          [] fr.pc = "start" /\ cb.k = "then" ->
                Call(m1, [fr EXCEPT !.pc = "registered"], Reentry(cb))
          [] fr.pc = "registered" -> Return(m, Undef)

\* this._onRejected(reason): the handler of node fr.this runs with fr.x
OnRejectedStep(m, fr) ==
    LET cb == m.nodes[fr.this].onR
        m1 == [Note(m, fr.this, "onRejected", fr.x)
                 EXCEPT !.nodes[fr.this].rCalls = @ + 1,
                        !.nodes[fr.this].rArg = fr.x]
        root == m.aggs[cb.v.n].rootPromise
    IN  CASE fr.pc = "done" -> Return(m, Undef)
          [] fr.pc = "start" /\ cb.k = "ret" -> Return(m1, cb.v)
          [] fr.pc = "start" /\ cb.k = "throw" -> Throw(m1, cb.v)
          [] fr.pc = "start" /\ cb.k = "agg" ->
                IF m1.nodes[root].state # "Rejected"
                THEN Call(m1, [fr EXCEPT !.pc = "done"],
                          Frame("_reject", root, fr.x))
                ELSE Return(m1, Undef)
          [] fr.pc = "start" /\ cb.k = "then" ->
                Call(m1, [fr EXCEPT !.pc = "done"], Reentry(cb))

\* private _moveChildren(children): fr.this takes over the array fr.arr
MoveChildrenStep(m, fr) ==
    LET new == Len(m.arrs) + 1
        m1 == [m EXCEPT
                 !.arrs = Append([@ EXCEPT ![fr.arr] = <<>>], m.arrs[fr.arr]),
                 !.nodes[fr.this].children = new]
        this == m.nodes[fr.this]
        loop == [fr EXCEPT !.arr = new, !.i = 1]
        next == [fr EXCEPT !.i = @ + 1]
        child == m.arrs[fr.arr][fr.i]
    IN  CASE fr.pc = "start" /\ this.state = "Fulfilled" ->
                Goto(m1, [loop EXCEPT !.pc = "fulfilled"])
          [] fr.pc = "start" /\ this.state = "Rejected" ->
                Goto(m1, [loop EXCEPT !.pc = "rejected"])
          [] fr.pc = "start" /\ this.state = "Pending" -> Return(m1, Undef)
          [] fr.pc # "start" /\ fr.i > Len(m.arrs[fr.arr]) -> Return(m, Undef)
          [] fr.pc = "fulfilled" /\ fr.i <= Len(m.arrs[fr.arr]) ->
                Call(m, next, Frame("_resolve", child, this.result))
          [] fr.pc = "rejected" /\ fr.i <= Len(m.arrs[fr.arr]) ->
                Call(m, next, Frame("_reject", child, this.reason))

\* private _resolve(value), the try block: fr.this is fulfilled with fr.x
ResolveStep(m, fr) ==
    LET m1 == [m EXCEPT !.nodes[fr.this].state = "Fulfilled",
                        !.nodes[fr.this].result = fr.x]
        returned == [fr EXCEPT !.pc = "returned"]
        loop == [fr EXCEPT !.pc = "loop", !.i = 1,
                           !.arr = m.nodes[fr.this].children]
    IN  CASE fr.pc = "start" ->
                IF m1.nodes[fr.this].onF.k # "none"
                THEN Call(m1, returned, Frame("onFulfilled", fr.this, fr.x))
                ELSE Goto([m1 EXCEPT !.ret = Null], returned)
          [] fr.pc = "returned" ->
                IF IsPresent(m.ret) /\ IsPromise(m.ret)
                THEN Call(m, [fr EXCEPT !.pc = "moved", !.aux = m.ret],
                          [Frame("_moveChildren", m.ret.n, Undef)
                             EXCEPT !.arr = m.nodes[fr.this].children])
                ELSE Goto(m, [loop EXCEPT !.aux = m.ret])
          [] fr.pc = "moved" -> Goto(m, loop)
          [] fr.pc = "loop" /\ fr.i > Len(m.arrs[fr.arr]) -> Return(m, fr.aux)
          [] fr.pc = "loop" /\ fr.i <= Len(m.arrs[fr.arr]) ->
                Call(m, [fr EXCEPT !.i = @ + 1],
                     Frame("_resolve", m.arrs[fr.arr][fr.i], fr.x))
          [] fr.pc = "caught" -> Return(m, Null)

\* private _resolve(value), the catch clause: this._reject(e.message)
ResolveCatch(m, fr) ==
    Call([m EXCEPT !.exc = NoExc], [fr EXCEPT !.pc = "caught"],
         Frame("_reject", fr.this, m.exc))

\* private _reject(reason): fr.this is rejected with fr.x
RejectStep(m, fr) ==
    LET m1 == [m EXCEPT !.nodes[fr.this].state = "Rejected",
                        !.nodes[fr.this].reason = fr.x]
        loop == [fr EXCEPT !.pc = "loop", !.i = 1,
                           !.arr = m.nodes[fr.this].children]
    IN  CASE fr.pc = "start" ->
                IF m1.nodes[fr.this].onR.k # "none"
                THEN Call(m1, [fr EXCEPT !.pc = "handled"],
                          Frame("onRejected", fr.this, fr.x))
                ELSE Goto(m1, loop)
          [] fr.pc = "handled" ->
                Goto([m EXCEPT !.nodes[fr.this].consumed = TRUE], loop)
          [] fr.pc = "loop" /\ fr.i > Len(m.arrs[fr.arr]) -> Return(m, Undef)
          [] fr.pc = "loop" /\ fr.i <= Len(m.arrs[fr.arr]) ->
                Call(m, [fr EXCEPT !.i = @ + 1],
                     IF m.nodes[fr.this].consumed
                     THEN Frame("_resolve", m.arrs[fr.arr][fr.i], Null)
                     ELSE Frame("_reject", m.arrs[fr.arr][fr.i], fr.x))

\* then as it would be without the replay on a settled promise: the child is
\* only registered
ThenStepNoReplay(m, fr) ==
    LET newPromise == Fresh(m)
        m1 == [Alloc(m) EXCEPT !.nodes[newPromise].onF = fr.cbF,
                               !.nodes[newPromise].onR = fr.cbR,
                               !.nodes[newPromise].parent = fr.this,
                               !.nodes[newPromise].thenRet = newPromise]
    IN  Return(Push(m1, m1.nodes[fr.this].children, newPromise),
               PromRef(newPromise))

\* public then(onFulfilled, onRejected) on fr.this, callbacks fr.cbF, fr.cbR;
\* fr.aux is newPromise
ThenStep(m, fr) ==
    LET newPromise == Fresh(m)
        m1 == [Alloc(m) EXCEPT !.nodes[newPromise].onF = fr.cbF,
                               !.nodes[newPromise].onR = fr.cbR,
                               !.nodes[newPromise].parent = fr.this]
        m2 == Push(m1, m1.nodes[fr.this].children, newPromise)
        this == m2.nodes[fr.this]
        next == [fr EXCEPT !.pc = "replayed", !.aux = PromRef(newPromise)]
        made == fr.aux.n
    IN  CASE fr.pc = "start" /\ this.state = "Pending" ->
                Goto(m2, [next EXCEPT !.pc = "return"])
          [] fr.pc = "start" /\ this.state # "Pending" ->
                IF this.state = "Fulfilled" \/ this.consumed
                THEN Call(m2, next, Frame("_resolve", newPromise, this.result))
                ELSE Call(m2, [next EXCEPT !.pc = "return"],
                          Frame("_reject", newPromise, this.reason))
          [] fr.pc = "replayed" ->
                IF ~IsPresent(m.ret) THEN Goto(m, [fr EXCEPT !.pc = "return"])
                ELSE IF IsPromise(m.ret)
                THEN Goto(Push(m, m.nodes[made].children, m.ret.n),
                          [fr EXCEPT !.pc = "return", !.x = m.ret])
                ELSE Goto([m EXCEPT !.nodes[made].result = m.ret],
                          [fr EXCEPT !.pc = "return"])
          [] fr.pc = "return" ->
                \* return newPromise; fr.x is the returned promise when the
                \* local newPromise was reassigned
                LET out == IF IsPromise(fr.x) THEN fr.x ELSE fr.aux
                IN  Return([m EXCEPT !.nodes[made].thenRet = out.n], out)

\* private static _RegisterForFulfillment(promise, agregator, index):
\* promise fr.this, aggregator fr.x.n, index fr.i
RegisterStep(m, fr) ==
    CASE fr.pc = "start" ->
            Call(m, [fr EXCEPT !.pc = "done"],
                 [Frame("then", fr.this, Undef)
                    EXCEPT !.cbF = AggCb(fr.x.n, fr.i),
                           !.cbR = AggCb(fr.x.n, fr.i)])
      [] fr.pc = "done" -> Return(m, Undef)

\* public static all(promises): promises fr.ps, index fr.i, agregator fr.x.n
AllStep(m, fr) ==
    LET newPromise == Fresh(m)
        a == Len(m.aggs) + 1
        m1 == [Alloc(m) EXCEPT
                 !.nodes[newPromise].made = "all",
                 !.aggs = Append(@, [NewAgg EXCEPT
                                       !.target = Len(fr.ps),
                                       !.rootPromise = newPromise,
                                       !.promises = fr.ps])]
    IN  CASE fr.pc = "start" ->
                Goto(m1, [fr EXCEPT !.pc = "loop", !.i = 0, !.x = ArrRef(a),
                                    !.aux = PromRef(newPromise)])
          [] fr.pc = "loop" /\ fr.i < Len(fr.ps) ->
                Call(m, [fr EXCEPT !.i = @ + 1],
                     [Frame("_RegisterForFulfillment", fr.ps[fr.i + 1], fr.x)
                        EXCEPT !.i = fr.i])
          [] fr.pc = "loop" /\ ~(fr.i < Len(fr.ps)) -> Return(m, fr.aux)

\* resolve as it would be if it forgot to fulfil the promise it returns
StaticResolveStepUnsettled(m, fr) ==
    Return([Alloc(m) EXCEPT !.nodes[Fresh(m)].made = "resolve"],
           PromRef(Fresh(m)))

\* public static resolve(value): value fr.x
StaticResolveStep(m, fr) ==
    LET newPromise == Fresh(m)
        m1 == [Alloc(m) EXCEPT !.nodes[newPromise].made = "resolve"]
    IN  CASE fr.pc = "start" ->
                Call(m1, [fr EXCEPT !.pc = "done", !.aux = PromRef(newPromise)],
                     Frame("_resolve", newPromise, fr.x))
          [] fr.pc = "done" -> Return(m, fr.aux)

(***************************************************************************)
(* Resolvers handed to the constructor: what the resolver does with the    *)
(* two callbacks while the constructor runs.  Whatever it does, it may     *)
(* keep them and call them later (CallResolve, CallReject).                *)
(***************************************************************************)
Resolvers ==
    {[k |-> "keep", v |-> Undef], [k |-> "throw", v |-> ThrownMsg]}
    \cup {[k |-> "resolve", v |-> v] : v \in Vals}
    \cup {[k |-> "reject", v |-> v] : v \in Reasons}

\* (value) => { this._resolve(value); } and (reason) => { this._reject(reason); }
ClosureStep(m, fr) ==
    CASE fr.pc = "start" ->
            Call(m, [fr EXCEPT !.pc = "done"],
                 Frame(IF fr.f = "resolveFn" THEN "_resolve" ELSE "_reject",
                       fr.this, fr.x))
      [] fr.pc = "done" -> Return(m, Undef)

\* the resolver fr.aux runs, with the callbacks of promise fr.this
ResolverStep(m, fr) ==
    LET m1 == Note(m, fr.this, "resolver", fr.x)
        done == [fr EXCEPT !.pc = "done"]
    IN  CASE fr.pc = "done" -> Return(m, Undef)
          [] fr.pc = "start" /\ fr.aux.k = "keep" -> Return(m1, Undef)
          [] fr.pc = "start" /\ fr.aux.k = "throw" -> Throw(m1, fr.x)
          [] fr.pc = "start" /\ fr.aux.k = "resolve" ->
                Call(m1, done, Frame("resolveFn", fr.this, fr.x))
          [] fr.pc = "start" /\ fr.aux.k = "reject" ->
                Call(m1, done, Frame("rejectFn", fr.this, fr.x))

\* public constructor(resolver), the try block; the resolver is fr.aux with
\* its argument fr.x
ConstructorStep(m, fr) ==
    LET this == Fresh(m)
        m1 == [Alloc(m) EXCEPT !.nodes[this].made = "new"]
    IN  CASE fr.pc = "start" ->
                Call(m1, [fr EXCEPT !.pc = "resolver", !.this = this],
                     [Frame("resolver", this, fr.x) EXCEPT !.aux = fr.aux])
          [] fr.pc \in {"resolver", "caught"} -> Return(m, PromRef(fr.this))

\* the catch clause as it would be if it swallowed the failure
ConstructorCatchSwallows(m, fr) ==
    Goto([m EXCEPT !.exc = NoExc], [fr EXCEPT !.pc = "caught"])

\* public constructor(resolver), the catch clause: this._reject(e.message)
ConstructorCatch(m, fr) ==
    Call([m EXCEPT !.exc = NoExc], [fr EXCEPT !.pc = "caught"],
         Frame("_reject", fr.this, m.exc))

\* public catch(onRejected): return this.then(undefined, onRejected)
CatchStep(m, fr) ==
    CASE fr.pc = "start" ->
            Call(m, [fr EXCEPT !.pc = "done"],
                 [Frame("then", fr.this, Undef) EXCEPT !.cbR = fr.cbR])
      [] fr.pc = "done" -> Return(m, m.ret)

\* value() as it would be without the test of the state
ValueStepUnchecked(m, fr) == Return(m, m.nodes[fr.this].result)

\* public value()
ValueStep(m, fr) ==
    IF m.nodes[fr.this].state # "Fulfilled" THEN Throw(m, NotFulfilledMsg)
    ELSE Return(m, m.nodes[fr.this].result)

\* public reason()
ReasonStep(m, fr) ==
    IF m.nodes[fr.this].state # "Rejected" THEN Throw(m, NotRejectedMsg)
    ELSE Return(m, m.nodes[fr.this].reason)

\* Apply as it would be if it ignored force
ApplyStepIgnoresForce(m, fr) ==
    IF m.global = "undefined"
    THEN Return([m EXCEPT !.global = "InternalPromise"], Undef)
    ELSE Return(m, Undef)

\* public static Apply(force = false): force is fr.x
ApplyStep(m, fr) ==
    IF fr.x = Bool(TRUE) \/ m.global = "undefined"
    THEN Return([m EXCEPT !.global = "InternalPromise"], Undef)
    ELSE Return(m, Undef)

\* an exception reaches frame fr: a try block catches it, any other code is
\* left
Unwind(m, fr) ==
    CASE fr.f = "_resolve" /\ fr.pc # "caught" -> ResolveCatch(m, fr)
      [] fr.f = "constructor" /\ fr.pc = "resolver" -> ConstructorCatch(m, fr)
      [] OTHER -> [m EXCEPT !.stack = Pop(@)]

\* one step of the function on top of the stack
Step(m) ==
    LET fr == m.stack[Len(m.stack)]
    IN  CASE m.exc # NoExc -> Unwind(m, fr)
          [] m.exc = NoExc /\ fr.f = "_resolve" -> ResolveStep(m, fr)
          [] m.exc = NoExc /\ fr.f = "_reject" -> RejectStep(m, fr)
          [] m.exc = NoExc /\ fr.f = "_moveChildren" -> MoveChildrenStep(m, fr)
          [] m.exc = NoExc /\ fr.f = "onFulfilled" -> OnFulfilledStep(m, fr)
          [] m.exc = NoExc /\ fr.f = "onRejected" -> OnRejectedStep(m, fr)
          [] m.exc = NoExc /\ fr.f = "then" -> ThenStep(m, fr)
          [] m.exc = NoExc /\ fr.f = "catch" -> CatchStep(m, fr)
          [] m.exc = NoExc /\ fr.f = "_RegisterForFulfillment" ->
                RegisterStep(m, fr)
          [] m.exc = NoExc /\ fr.f = "all" -> AllStep(m, fr)
          [] m.exc = NoExc /\ fr.f = "resolve" -> StaticResolveStep(m, fr)
          [] m.exc = NoExc /\ fr.f \in {"resolveFn", "rejectFn"} ->
                ClosureStep(m, fr)
          [] m.exc = NoExc /\ fr.f = "resolver" -> ResolverStep(m, fr)
          [] m.exc = NoExc /\ fr.f = "constructor" -> ConstructorStep(m, fr)
          [] m.exc = NoExc /\ fr.f = "Apply" -> ApplyStep(m, fr)
          [] m.exc = NoExc /\ fr.f = "value" -> ValueStep(m, fr)
          [] m.exc = NoExc /\ fr.f = "reason" -> ReasonStep(m, fr)

\* runs the machine until the outermost call has returned or thrown; a call
\* stack deeper than MaxDepth is an endless recursion (ovf)
RECURSIVE Run(_)
Run(m) ==
    IF m.stack = <<>> THEN m
    ELSE IF Len(m.stack) > MaxDepth THEN [m EXCEPT !.ovf = TRUE]
    ELSE Run(Step(m))

\* the public operation of frame fr, run on the present heap
Exec(fr) == Run(Load(fr))

(***************************************************************************)
(* The callbacks a caller passes to then and catch.                        *)
(***************************************************************************)
\* callbacks that return nothing or a plain value
PlainCbs == {RetCb(Undef), RetCb(RetVal)}
\* callbacks that return a promise that exists already
PromiseCbs == {RetCb(PromRef(q)) : q \in 1..Len(nodes)}
\* rejection handlers that return normally
HandlerCbs == {RetCb(Undef)}

Init ==
    /\ nodes = <<>>
    /\ aggs = <<>>
    /\ settles = 0
    /\ lastExc = NoExc
    /\ last = [call |-> Frame("none", 0, Undef), ret |-> Undef, calls |-> <<>>]
    /\ global = "native"

\* the heap has room for n more promises
Room(n, max) == Len(nodes) + n <= max

\* an operation ran to its end (or to an exception the caller sees)
Commit(m) ==
    /\ ~m.ovf
    /\ nodes' = Store(m)
    /\ aggs' = m.aggs
    /\ lastExc' = m.exc
    /\ last' = [call |-> m.call, ret |-> m.ret, calls |-> m.log]
    /\ global' = m.global

\* new InternalPromise(resolver), the resolver drawn from R
Construct(R) ==
    \E resolver \in R :
        /\ Commit(Exec([Frame("constructor", 0, resolver.v)
                          EXCEPT !.aux = resolver]))
        /\ UNCHANGED settles

\* the promises whose resolver callbacks the caller may call: any promise
\* built with a resolver, as long as fewer than limit calls were made
Callable(limit) ==
    {p \in 1..Len(nodes) : nodes[p].made = "new" /\ settles < limit}
\* the same when every resolver calls one of its two callbacks, once
CallableOnce ==
    {p \in 1..Len(nodes) : nodes[p].made = "new" /\ nodes[p].state = "Pending"}

\* the resolve callback of the resolver of a promise of S is called
CallResolve(S) ==
    \E p \in S, v \in Vals :
        /\ settles' = settles + 1
        /\ Commit(Exec(Frame("resolveFn", p, v)))

\* the reject callback of the resolver of a promise of S is called
CallReject(S) ==
    \E p \in S, reason \in Reasons :
        /\ settles' = settles + 1
        /\ Commit(Exec(Frame("rejectFn", p, reason)))

\* p.then(onFulfilled, onRejected), the callbacks drawn from F and H
Then(F, H) ==
    \E p \in 1..Len(nodes), f \in F, h \in H :
        /\ Commit(Exec([Frame("then", p, Undef) EXCEPT !.cbF = f, !.cbR = h]))
        /\ UNCHANGED settles

\* p.catch(onRejected)
Catch(H) ==
    \E p \in 1..Len(nodes), h \in H :
        /\ Commit(Exec([Frame("catch", p, Undef) EXCEPT !.cbR = h]))
        /\ UNCHANGED settles

\* InternalPromise.resolve(value)
StaticResolve ==
    \E v \in Vals :
        /\ Commit(Exec(Frame("resolve", 0, v)))
        /\ UNCHANGED settles

\* p.value()
Value ==
    \E p \in 1..Len(nodes) :
        /\ Commit(Exec(Frame("value", p, Undef)))
        /\ UNCHANGED settles

\* p.reason()
Reason ==
    \E p \in 1..Len(nodes) :
        /\ Commit(Exec(Frame("reason", p, Undef)))
        /\ UNCHANGED settles

\* PromisePolyfill.Apply(force)
Apply ==
    \E force \in BOOLEAN :
        /\ Commit(Exec(Frame("Apply", 0, Bool(force))))
        /\ UNCHANGED settles

\* the arrays of promises handed to all
InputSeqs ==
    UNION {[1..len -> 1..Len(nodes)] : len \in 0..MaxInputs}

\* InternalPromise.all(promises), with room for the promises it allocates
All(max) ==
    \E promises \in InputSeqs :
        /\ Len(aggs) < MaxAlls
        /\ Room(1 + Len(promises), max)
        /\ Commit(Exec([Frame("all", 0, Undef) EXCEPT !.ps = promises]))
        /\ UNCHANGED settles

Keep == {[k |-> "keep", v |-> Undef]}

(***************************************************************************)
(* Spec: construction, settlement through the resolver's callbacks (which  *)
(* may be called again after the first call), and then/catch with          *)
(* callbacks that return nothing or a plain value.                         *)
(***************************************************************************)
Next ==
    \/ Room(1, MaxNodes) /\ Construct(Keep)
    \/ CallResolve(Callable(MaxSettle))
    \/ CallReject(Callable(MaxSettle))
    \/ Room(1, MaxNodes) /\ Then({NoCb} \cup PlainCbs, {NoCb} \cup HandlerCbs)
    \/ Room(1, MaxNodes) /\ Catch(HandlerCbs)

Spec == Init /\ [][Next]_vars

(***************************************************************************)
(* SpecOnce: the same, every resolver calling one callback once.           *)
(***************************************************************************)
NextOnce ==
    \/ Room(1, MaxNodes) /\ Construct(Keep)
    \/ CallResolve(CallableOnce)
    \/ CallReject(CallableOnce)
    \/ Room(1, MaxNodes) /\ Then({NoCb} \cup PlainCbs, {NoCb} \cup HandlerCbs)
    \/ Room(1, MaxNodes) /\ Catch(HandlerCbs)

SpecOnce == Init /\ [][NextOnce]_vars

(***************************************************************************)
(* SpecChain: then-callbacks that return a promise; every resolver calls   *)
(* one callback once.                                                      *)
(***************************************************************************)
NextChain ==
    \/ Room(1, MaxNodes) /\ Construct(Keep)
    \/ CallResolve(CallableOnce)
    \/ CallReject(CallableOnce)
    \/ Room(1, MaxNodes) /\ Then({NoCb} \cup PromiseCbs, {NoCb})
    \/ Room(1, MaxNodes) /\ StaticResolve

SpecChain == Init /\ [][NextChain]_vars

(***************************************************************************)
(* SpecAll: the aggregation of all over promises built by the constructor  *)
(* and by catch; every resolver calls one callback once.                   *)
(***************************************************************************)
NextAll ==
    \/ Room(1, MaxAllNodes) /\ Construct(Keep)
    \/ CallResolve(CallableOnce)
    \/ CallReject(CallableOnce)
    \/ Room(1, MaxAllNodes) /\ Catch(HandlerCbs)
    \/ All(MaxAllNodes)

SpecAll == Init /\ [][NextAll]_vars

(***************************************************************************)
(* SpecAllSettle: all over promises built by the constructor, whose        *)
(* resolver callbacks are called up to MaxAllSettle times.                 *)
(***************************************************************************)
NextAllSettle ==
    \/ Room(1, MaxAllNodes) /\ Construct(Keep)
    \/ CallResolve(Callable(MaxAllSettle))
    \/ CallReject(Callable(MaxAllSettle))
    \/ All(MaxAllNodes)

SpecAllSettle == Init /\ [][NextAllSettle]_vars

(***************************************************************************)
(* SpecThen: then with callbacks of every kind (returning nothing, a plain *)
(* value or a promise, or throwing) and handlers that return or throw;     *)
(* resolver callbacks may be called again.                                 *)
(***************************************************************************)
AnyCbs == {NoCb, ThrowCb} \cup PlainCbs \cup PromiseCbs
AnyHandlers == {NoCb, ThrowCb} \cup HandlerCbs

NextThen ==
    \/ Room(1, MaxThenNodes) /\ Construct(Keep)
    \/ CallResolve(Callable(MaxSettle))
    \/ CallReject(Callable(MaxSettle))
    \/ Room(1, MaxThenNodes) /\ Then(AnyCbs, AnyHandlers)

SpecThen == Init /\ [][NextThen]_vars

(***************************************************************************)
(* SpecResolver: the constructor with resolvers of every kind: one that    *)
(* keeps the two callbacks, one that calls resolve, one that calls reject, *)
(* one that throws.  The callbacks may be called again later.              *)
(***************************************************************************)
NextResolver ==
    \/ Room(1, MaxThenNodes) /\ Construct(Resolvers)
    \/ CallResolve(Callable(MaxSettle))
    \/ CallReject(Callable(MaxSettle))
    \/ Room(1, MaxThenNodes) /\ Then({NoCb} \cup PlainCbs, {NoCb} \cup HandlerCbs)

SpecResolver == Init /\ [][NextResolver]_vars

(***************************************************************************)
(* SpecAccess: the accessors value() and reason() on promises of any       *)
(* state.                                                                  *)
(***************************************************************************)
NextAccess ==
    \/ Room(1, MaxThenNodes) /\ Construct(Keep)
    \/ CallResolve(Callable(MaxSettle))
    \/ CallReject(Callable(MaxSettle))
    \/ Room(1, MaxThenNodes) /\ Then({NoCb} \cup PlainCbs, {NoCb} \cup HandlerCbs)
    \/ Value
    \/ Reason

SpecAccess == Init /\ [][NextAccess]_vars

(***************************************************************************)
(* SpecApply: the installer, in a host with or without a Promise of its    *)
(* own, next to promises that are built and settled.                       *)
(***************************************************************************)
InitApply ==
    /\ nodes = <<>>
    /\ aggs = <<>>
    /\ settles = 0
    /\ lastExc = NoExc
    /\ last = [call |-> Frame("none", 0, Undef), ret |-> Undef, calls |-> <<>>]
    /\ global \in {"undefined", "native"}

NextApply ==
    \/ Room(1, MaxThenNodes) /\ Construct(Keep)
    \/ CallResolve(CallableOnce)
    \/ CallReject(CallableOnce)
    \/ Room(1, MaxThenNodes) /\ Then({NoCb, RetCb(Undef)}, {NoCb})
    \/ Apply

SpecApply == InitApply /\ [][NextApply]_vars

(***************************************************************************)
(* SpecSplice: then-callbacks that return a promise built by the           *)
(* constructor, on a heap large enough for two nodes that return the same  *)
(* promise; every resolver calls one callback once.                        *)
(***************************************************************************)
ResolverCbs ==
    {RetCb(PromRef(q)) : q \in {r \in 1..Len(nodes) : nodes[r].made = "new"}}

\* fewer than MaxResolvers promises were built by the constructor
FewResolvers ==
    Cardinality({p \in 1..Len(nodes) : nodes[p].made = "new"}) < MaxResolvers

NextSplice ==
    \/ Room(1, MaxAllNodes) /\ FewResolvers /\ Construct(Keep)
    \/ CallResolve(CallableOnce)
    \/ CallReject(CallableOnce)
    \/ Room(1, MaxAllNodes) /\ Then({NoCb} \cup ResolverCbs, {NoCb})

SpecSplice == Init /\ [][NextSplice]_vars

(***************************************************************************)
(* SpecReenter: then-callbacks and handlers that call then on the promise  *)
(* they were registered on; every resolver calls one callback once.        *)
(***************************************************************************)
\* p.then(f, h) where f or h (slot) calls p.then(g) or p.then(undefined, g)
ThenReentrant ==
    \E p \in 1..Len(nodes), i \in {0, 1}, slot \in {"onFulfilled", "onRejected"} :
        /\ Commit(Exec([Frame("then", p, Undef)
                          EXCEPT !.cbF = IF slot = "onFulfilled"
                                         THEN ThenCb(p, i) ELSE NoCb,
                                 !.cbR = IF slot = "onRejected"
                                         THEN ThenCb(p, i) ELSE NoCb]))
        /\ UNCHANGED settles

\* the promises an operation built fit the heap
Fits(max) == Len(nodes') <= max

NextReenter ==
    \/ Room(1, MaxNodes) /\ Construct(Keep)
    \/ CallResolve(CallableOnce) /\ Fits(MaxNodes)
    \/ CallReject(CallableOnce) /\ Fits(MaxNodes)
    \/ Room(1, MaxNodes) /\ Then({NoCb} \cup PlainCbs, {NoCb} \cup HandlerCbs)
    \/ Room(1, MaxNodes) /\ ThenReentrant /\ Fits(MaxNodes)

SpecReenter == Init /\ [][NextReenter]_vars

(***************************************************************************)
(* SpecIsolate: every promise built by the constructor is settled by one   *)
(* call of its resolve callback; then with callbacks and handlers of every *)
(* kind.                                                                   *)
(***************************************************************************)
NextIsolate ==
    \/ Room(1, MaxNodes) /\ Construct(Keep)
    \/ CallResolve(CallableOnce)
    \/ Room(1, MaxNodes) /\ Then(AnyCbs, AnyHandlers)

SpecIsolate == Init /\ [][NextIsolate]_vars

(***************************************************************************)
(* Vocabulary of the claims.                                               *)
(***************************************************************************)
Ids == 1..Len(nodes)
Settled(p) == nodes[p].state # "Pending"
Absent(v) == ~IsPresent(v)

\* C1: a node's state only moves Pending -> Fulfilled or Pending ->
\* Rejected; once a node has left Pending, no operation changes its state.
C1_StateMonotonic ==
    [][\A p \in Ids : Settled(p) => nodes'[p].state = nodes[p].state]_vars

\* C2: first call wins.  Once a node built with a resolver has been settled
\* by a call of its resolve or reject callback, a further call of either
\* callback leaves its state, result and reason as they are.
C2_FirstCallWins ==
    [][\A p \in Ids :
          (nodes[p].made = "new" /\ Settled(p) /\ settles' = settles + 1)
          => /\ nodes'[p].state = nodes[p].state
             /\ nodes'[p].result = nodes[p].result
             /\ nodes'[p].reason = nodes[p].reason]_vars

\* C3: the onFulfilled callback of a node created by then is invoked at
\* most once, and so is its onRejected callback.
C3_CallbacksAtMostOnce ==
    \A p \in Ids :
        nodes[p].made = "then" => nodes[p].fCalls <= 1 /\ nodes[p].rCalls <= 1

AggIds == 1..Len(aggs)
Root(a) == aggs[a].rootPromise
Input(a, i) == aggs[a].promises[i]
Inputs(a) == 1..Len(aggs[a].promises)
AllInputsFulfilled(a) ==
    \A i \in Inputs(a) : nodes[Input(a, i)].state = "Fulfilled"

\* C4: the root all returns for an empty array of promises is Fulfilled with
\* an empty result array as soon as all has returned.
C4_AllOfNoneFulfilled ==
    \A a \in AggIds :
        aggs[a].target = 0
        => /\ nodes[Root(a)].state = "Fulfilled"
           /\ nodes[Root(a)].result = ArrRef(a)
           /\ aggs[a].results = <<>>

\* the promise a then-callback returns, 0 when it returns none
Returned(c) ==
    IF nodes[c].onF.k = "ret" /\ IsPromise(nodes[c].onF.v)
    THEN nodes[c].onF.v.n ELSE 0

\* C5: chained-return flattening.  When the onFulfilled callback of a then
\* call has run and returned a promise built by the static resolve(w), the
\* node that then call returned is Fulfilled with w.
C5_ChainedReturnFlattened ==
    \A c \in Ids :
        (/\ nodes[c].made = "then"
         /\ nodes[c].thenRet # 0
         /\ nodes[c].fCalls > 0
         /\ Returned(c) # 0
         /\ nodes[Returned(c)].made = "resolve")
        => /\ nodes[nodes[c].thenRet].state = "Fulfilled"
           /\ nodes[nodes[c].thenRet].result = nodes[Returned(c)].result

\* C6: once every one of the N >= 1 promises handed to all is Fulfilled,
\* the root is Fulfilled with the result array, which holds the value of
\* promise i in slot i.
C6_AllCollectsInOrder ==
    \A a \in AggIds :
        (aggs[a].target >= 1 /\ AllInputsFulfilled(a))
        => /\ nodes[Root(a)].state = "Fulfilled"
           /\ nodes[Root(a)].result = ArrRef(a)
           /\ Len(aggs[a].results) = aggs[a].target
           /\ \A i \in Inputs(a) :
                 aggs[a].results[i] = nodes[Input(a, i)].result

\* input i of aggregator a is rejected by this step
BecomesRejected(a, i) ==
    /\ nodes[Input(a, i)].state # "Rejected"
    /\ nodes'[Input(a, i)].state = "Rejected"

\* C7: first failure wins.  A step that rejects an input of all while the
\* root is not Rejected leaves the root Rejected with that input's reason,
\* and no step changes the state or the reason of a Rejected root.
C7_FirstFailureWins ==
    [][\A a \in AggIds :
          LET hit == {i \in Inputs(a) : BecomesRejected(a, i)}
          IN  /\ (hit # {} /\ nodes[Root(a)].state # "Rejected")
                 => /\ nodes'[Root(a)].state = "Rejected"
                    /\ \E i \in hit :
                          nodes'[Root(a)].reason = nodes'[Input(a, i)].reason
              /\ nodes[Root(a)].state = "Rejected"
                 => /\ nodes'[Root(a)].state = "Rejected"
                    /\ nodes'[Root(a)].reason = nodes[Root(a)].reason]_vars

\* C8: the root of all is Fulfilled only if every input is Fulfilled; the
\* aggregator's count never exceeds target and reaches it only when every
\* input is Fulfilled.
C8_RootFulfilledOnlyIfAllAre ==
    \A a \in AggIds :
        /\ nodes[Root(a)].state = "Fulfilled" => AllInputsFulfilled(a)
        /\ aggs[a].count <= aggs[a].target
        /\ aggs[a].count = aggs[a].target => AllInputsFulfilled(a)

Parent(x) == nodes[x].parent
HasHandler(x) == nodes[x].onR.k # "none"
HasCallback(x) == nodes[x].onF.k # "none"

\* C9: rejection consumption.  With A built by the constructor and Rejected
\* with R: the handler of B = A.catch(h) has been invoked with R, every
\* C = B.then(...) is Fulfilled with an absent value, and every sibling
\* D = A.then(f) without a rejection handler is Rejected with R, f never
\* having been invoked.
C9_RejectionConsumed ==
    \A A \in Ids :
        (nodes[A].made = "new" /\ nodes[A].state = "Rejected")
        => /\ \A B \in Ids :
                 (Parent(B) = A /\ ~HasCallback(B) /\ HasHandler(B))
                 => /\ nodes[B].rCalls >= 1
                    /\ nodes[B].rArg = nodes[A].reason
                    /\ \A C \in Ids :
                          Parent(C) = B
                          => /\ nodes[C].state = "Fulfilled"
                             /\ Absent(nodes[C].result)
           /\ \A D \in Ids :
                 (Parent(D) = A /\ HasCallback(D) /\ ~HasHandler(D))
                 => /\ nodes[D].state = "Rejected"
                    /\ nodes[D].reason = nodes[A].reason
                    /\ nodes[D].fCalls = 0

RECURSIVE RootOf(_)
RootOf(x) == IF Parent(x) = 0 THEN x ELSE RootOf(Parent(x))
\* some node strictly between x and the root of its chain has a handler
RECURSIVE HandlerAbove(_)
HandlerAbove(x) ==
    /\ Parent(x) # 0
    /\ HasHandler(Parent(x)) \/ HandlerAbove(Parent(x))

\* C10: under a root Rejected with R, a then-node with no handler on the
\* way to it is Rejected with R and its onFulfilled was never invoked; the
\* first node with a handler had it invoked with R; every node below a
\* handler node is Fulfilled with an absent value.
C10_RejectionPropagates ==
    \A x \in Ids :
        (/\ Parent(x) # 0
         /\ nodes[RootOf(x)].made = "new"
         /\ nodes[RootOf(x)].state = "Rejected")
        => /\ (~HandlerAbove(x) /\ ~HasHandler(x))
              => /\ nodes[x].state = "Rejected"
                 /\ nodes[x].reason = nodes[RootOf(x)].reason
                 /\ nodes[x].fCalls = 0
           /\ (~HandlerAbove(x) /\ HasHandler(x))
              => /\ nodes[x].rCalls >= 1
                 /\ nodes[x].rArg = nodes[RootOf(x)].reason
           /\ HandlerAbove(x)
              => /\ nodes[x].state = "Fulfilled"
                 /\ Absent(nodes[x].result)

\* the runs of function f for promise p in a log of calls, in order
CallsOf(log, p, f) ==
    LET Hit(e) == e.p = p /\ e.f = f
    IN  SelectSeq(log, Hit)

\* C11: then(onFulfilled) on a promise that is Fulfilled with v invokes
\* onFulfilled with v exactly once before then returns.
C11_ThenOnFulfilledRunsInline ==
    [][\A p \in Ids :
          (/\ last'.call.f = "then"
           /\ last'.call.this = p
           /\ last'.call.cbF.k # "none"
           /\ nodes[p].state = "Fulfilled")
          => CallsOf(last'.calls, Len(nodes) + 1, "onFulfilled")
             = <<[p |-> Len(nodes) + 1, f |-> "onFulfilled",
                  x |-> nodes[p].result]>>]_vars

\* then was just called with a callback on a Fulfilled promise, and the
\* callback ran
C11_Witness ==
    /\ last.call.f = "then"
    /\ last.call.cbF.k # "none"
    /\ nodes[last.call.this].state = "Fulfilled"
    /\ nodes[Len(nodes)].parent = last.call.this
    /\ nodes[Len(nodes)].fCalls = 1
    /\ nodes[Len(nodes)].fArg = nodes[last.call.this].result

\* the members of a sequence
Range(seq) == {seq[i] : i \in DOMAIN seq}
\* the children registered on p by then and still in its _children array
Registered(p) == {c \in Range(nodes[p].children) : Parent(c) = p}

\* a step in which p leaves Pending
Settles(p) == nodes[p].state = "Pending" /\ nodes'[p].state # "Pending"

\* C12: then on a Pending promise invokes no callback and leaves the new
\* child Pending; a child registered on a promise is Pending as long as the
\* promise is; and in the step that settles a promise every child
\* registered on it leaves Pending.
C12_ChildrenSettleWithParent ==
    [][\A p \in Ids :
          /\ (last'.call.f = "then" /\ last'.call.this = p
               /\ nodes[p].state = "Pending")
              => /\ last'.calls = <<>>
                 /\ nodes'[Len(nodes) + 1].state = "Pending"
          /\ nodes'[p].state = "Pending"
              => \A c \in Registered(p) : nodes'[c].state = "Pending"
          /\ Settles(p)
              => \A c \in Registered(p) : nodes'[c].state # "Pending"]_vars

\* C13: the constructor invokes its resolver exactly once before it
\* returns; when the resolver throws without having called resolve or
\* reject, the new promise is Rejected with the message thrown; when it
\* returns without having called either, the new promise is Pending.
C13_ResolverRunsOnce ==
    [][last'.call.f = "constructor"
       => LET this == Len(nodes) + 1
              resolver == last'.call.aux
              IsResolver(e) == e.f = "resolver"
          IN  /\ SelectSeq(last'.calls, IsResolver)
                 = <<[p |-> this, f |-> "resolver", x |-> resolver.v]>>
              /\ resolver.k = "throw"
                 => /\ nodes'[this].state = "Rejected"
                    /\ nodes'[this].reason = resolver.v
              /\ resolver.k = "keep"
                 => nodes'[this].state = "Pending"]_vars

\* a promise was just constructed with a resolver that threw, and is
\* Rejected with the message
C13_Witness ==
    /\ last.call.f = "constructor"
    /\ last.call.aux.k = "throw"
    /\ nodes[Len(nodes)].state = "Rejected"
    /\ nodes[Len(nodes)].reason = ThrownMsg
    /\ Len(last.calls) = 1

\* C14: value() returns the result when the promise is Fulfilled and throws
\* when it is Pending or Rejected; reason() returns the reason when the
\* promise is Rejected and throws when it is Pending or Fulfilled; neither
\* changes a promise or an aggregator.
C14_AccessorsGuarded ==
    [][\A p \in Ids :
          /\ (last'.call.f = "value" /\ last'.call.this = p)
              => /\ nodes' = nodes /\ aggs' = aggs
                 /\ nodes[p].state = "Fulfilled"
                    => lastExc' = NoExc /\ last'.ret = nodes[p].result
                 /\ nodes[p].state # "Fulfilled"
                    => lastExc' = NotFulfilledMsg
          /\ (last'.call.f = "reason" /\ last'.call.this = p)
              => /\ nodes' = nodes /\ aggs' = aggs
                 /\ nodes[p].state = "Rejected"
                    => lastExc' = NoExc /\ last'.ret = nodes[p].reason
                 /\ nodes[p].state # "Rejected"
                    => lastExc' = NotRejectedMsg]_vars

\* value() was just called on a Rejected promise and threw
C14_Witness ==
    /\ last.call.f = "value"
    /\ nodes[last.call.this].state = "Rejected"
    /\ lastExc = NotFulfilledMsg

\* C15: the static resolve(v) returns a new promise that is Fulfilled with
\* v and has no children, and invokes no callback.
C15_StaticResolveFulfilled ==
    [][last'.call.f = "resolve"
       => LET newPromise == Len(nodes) + 1
          IN  /\ last'.ret = PromRef(newPromise)
              /\ lastExc' = NoExc
              /\ nodes'[newPromise].state = "Fulfilled"
              /\ nodes'[newPromise].result = last'.call.x
              /\ nodes'[newPromise].children = <<>>
              /\ last'.calls = <<>>]_vars

\* resolve(v) was just called and returned a promise Fulfilled with v
C15_Witness ==
    /\ last.call.f = "resolve"
    /\ last.call.x \in Vals
    /\ last.ret = PromRef(Len(nodes))
    /\ nodes[Len(nodes)].state = "Fulfilled"
    /\ nodes[Len(nodes)].result = last.call.x

\* the positions in a log of calls at which a callback of promise c runs
RunsOf(log, c) == {i \in DOMAIN log : log[i].p = c /\ log[i].f # "resolver"}

\* C16: when a promise settles, the children registered on it are notified
\* in the order of their registration: of two children whose callbacks run,
\* the one registered first has its callback run first.
C16_ChildrenNotifiedInOrder ==
    [][\A p \in Ids :
          Settles(p)
          => \A c1, c2 \in Registered(p) :
                (/\ c1 < c2
                 /\ RunsOf(last'.calls, c1) # {}
                 /\ RunsOf(last'.calls, c2) # {})
                => \E a \in RunsOf(last'.calls, c1) :
                      \A b \in RunsOf(last'.calls, c2) : a < b]_vars

\* a settlement just notified two children of the settled promise, the one
\* registered first before the other
C16_Witness ==
    /\ last.call.f \in {"resolveFn", "rejectFn"}
    /\ \E c1, c2 \in Ids :
          /\ c1 < c2
          /\ Parent(c1) = last.call.this /\ Parent(c2) = last.call.this
          /\ nodes[last.call.this].children = <<c1, c2>>
          /\ RunsOf(last.calls, c1) = {1}
          /\ RunsOf(last.calls, c2) = {2}

\* C17: Apply(force) installs InternalPromise as the global Promise exactly
\* when force is true or the host has no Promise; otherwise the global is
\* left as it is; nothing else changes; and a second Apply(force) right
\* after the first leaves the global as the first left it.
C17_ApplyInstallsOnce ==
    [][last'.call.f = "Apply"
       => /\ global' = IF last'.call.x = Bool(TRUE) \/ global = "undefined"
                        THEN "InternalPromise" ELSE global
          /\ nodes' = nodes /\ aggs' = aggs
          /\ (last.call.f = "Apply" /\ last.call.x = last'.call.x)
             => global' = global]_vars

\* Apply(true) was just called and InternalPromise is installed
C17_Witness ==
    /\ last.call.f = "Apply"
    /\ last.call.x = Bool(TRUE)
    /\ global = "InternalPromise"

\* the calls of onFulfilled on x before and after a step
FCallsBefore(x) == IF x \in Ids THEN nodes[x].fCalls ELSE 0
\* the children registered on x before a step
RegisteredBefore(x) == IF x \in Ids THEN Registered(x) ELSE {}

\* C18: continuation failure.  When the onFulfilled callback of a node
\* throws while the node is being fulfilled (by the fan-out of its parent
\* or by the replay in then), the node ends Rejected with the message
\* thrown, no failure escapes to the caller, and every child registered on
\* the node is Rejected with the same message.
C18_ContinuationFailureRejects ==
    [][\A x \in 1..Len(nodes') :
          (nodes'[x].onF.k = "throw" /\ nodes'[x].fCalls > FCallsBefore(x))
          => /\ nodes'[x].state = "Rejected"
             /\ nodes'[x].reason = ThrownMsg
             /\ lastExc' = NoExc
             /\ \A c \in RegisteredBefore(x) :
                   /\ nodes'[c].state = "Rejected"
                   /\ nodes'[c].reason = ThrownMsg]_vars

\* the children of N that wait for r: N was fulfilled, its onFulfilled
\* returned r, and the child, registered on N, is still Pending
Handed(N, r) ==
    IF nodes[N].state = "Fulfilled" /\ nodes[N].fCalls > 0 /\ Returned(N) = r
    THEN {c \in Ids : Parent(c) = N /\ nodes[c].state = "Pending"}
    ELSE {}

\* child c has the outcome of r after a step
SettledLike(c, r) ==
    /\ nodes'[c].state = nodes'[r].state
    /\ nodes'[r].state = "Fulfilled" => nodes'[c].result = nodes'[r].result
    /\ nodes'[r].state = "Rejected" => nodes'[c].reason = nodes'[r].reason

\* C19: splicing.  In the step that fulfils a node N whose onFulfilled
\* returns the promise r, the children registered on N stay Pending if r is
\* Pending and take the outcome of r if r is settled; children that wait
\* for r stay Pending as long as r is Pending, and in the step that settles
\* r they are resolved with its value or rejected with its reason.
C19_ChildrenFollowReturnedPromise ==
    [][\A N, r \in Ids :
          /\ (/\ N # r /\ Returned(N) = r
               /\ Settles(N) /\ nodes'[N].fCalls > nodes[N].fCalls
               /\ nodes'[r].state = nodes[r].state)
              => \A c \in Registered(N) : SettledLike(c, r)
          /\ \A c \in Handed(N, r) :
                /\ nodes'[r].state = "Pending" => nodes'[c].state = "Pending"
                /\ Settles(r) => SettledLike(c, r)]_vars

\* a step resolved child c with v: its onFulfilled ran with v or, when it
\* has none, it became Fulfilled with v
ResolvedWith(c, v) ==
    IF HasCallback(c)
    THEN nodes'[c].fCalls > nodes[c].fCalls /\ nodes'[c].fArg = v
    ELSE nodes'[c].state = "Fulfilled" /\ nodes'[c].result = v

\* C20: fan-out forwards the original value.  In a step that fulfils with v
\* a node N that has children, N's onFulfilled returning a plain value,
\* every child in N's _children array is resolved with v and N is
\* Fulfilled with v.
C20_FanOutForwardsValue ==
    [][\A N \in Ids :
          (/\ nodes[N].onF.k = "ret" /\ ~IsPromise(nodes[N].onF.v)
           /\ nodes[N].children # <<>>
           /\ nodes'[N].fCalls > nodes[N].fCalls)
          => /\ nodes'[N].state = "Fulfilled"
             /\ nodes'[N].result = nodes'[N].fArg
             /\ \A c \in Range(nodes[N].children) :
                   ResolvedWith(c, nodes'[N].fArg)]_vars

\* a node whose onFulfilled returns a plain value other than the one it was
\* fulfilled with has a child that was resolved with the node's value
C20_Witness ==
    \E N, c \in Ids :
        /\ nodes[N].onF = RetCb(RetVal)
        /\ nodes[N].fCalls = 1
        /\ nodes[N].state = "Fulfilled"
        /\ nodes[N].result \in Vals
        /\ nodes[N].children = <<c>>
        /\ Parent(c) = N
        /\ nodes[c].fCalls = 1
        /\ nodes[c].fArg = nodes[N].result
        /\ last.call.f = "resolveFn"

\* a node A.then(f) whose f returns a plain non-null value and ran once,
\* with argument v, and whose handler never ran
ThenOfPlain(B, v) ==
    /\ nodes[B].made = "then" /\ nodes[B].parent # 0
    /\ nodes[B].onF.k = "ret"
    /\ IsPresent(nodes[B].onF.v) /\ ~IsPromise(nodes[B].onF.v)
    /\ nodes[B].fCalls = 1 /\ nodes[B].fArg = v /\ nodes[B].rCalls = 0
    /\ nodes[B].state = "Fulfilled"

\* the nodes B.then(g) whose g ran once
ThenOfThen(B) ==
    {C \in Ids : nodes[C].parent = B /\ nodes[C].fCalls = 1}

\* C21: registration-time independence.  Any two nodes A.then(f) with the
\* same f returning a plain non-null value, f having run once on the same
\* fulfilment value, hold the same value, and the callbacks g of their
\* continuations .then(g) received the same argument: it makes no
\* difference whether a chain was registered before or after A was
\* fulfilled.
C21_RegistrationTimeIndependent ==
    \A B1, B2 \in Ids : \A v \in Vals :
        (/\ ThenOfPlain(B1, v) /\ ThenOfPlain(B2, v)
         /\ nodes[B1].onF = nodes[B2].onF)
        => /\ nodes[B1].result = nodes[B2].result
           /\ \A C1 \in ThenOfThen(B1), C2 \in ThenOfThen(B2) :
                 nodes[C1].fArg = nodes[C2].fArg

\* C22: no lost continuations.  A child registered by then on a Pending
\* promise r built by the constructor stays in r's _children array as long
\* as r is Pending, also when r is returned from another node's
\* onFulfilled and takes over that node's children, and the child is
\* settled in the step that settles r.
C22_NoLostContinuations ==
    [][\A r, c \in Ids :
          (/\ nodes[r].made = "new" /\ nodes[r].state = "Pending"
           /\ Parent(c) = r /\ nodes[c].state = "Pending")
          => /\ nodes'[r].state = "Pending"
                  => c \in Range(nodes'[r].children)
             /\ Settles(r) => nodes'[c].state # "Pending"]_vars

\* the nodes built during a step by then calls that callbacks made
Reentered ==
    IF last'.call.f \in {"resolveFn", "rejectFn"}
    THEN (Len(nodes) + 1)..Len(nodes') ELSE {}

\* the callback g of the re-entrant node x is due: it was registered as
\* onFulfilled on a parent whose children are resolved, or as onRejected on
\* a parent whose children are rejected
Due(x) ==
    LET P == nodes'[nodes'[x].parent]
    IN  IF P.state = "Fulfilled" \/ P.consumed
        THEN nodes'[x].onF.k # "none" ELSE nodes'[x].onR.k # "none"

\* C23: re-entrant registration.  When a callback that runs during the
\* fan-out of its parent calls then(g) on that parent, g is invoked exactly
\* once in that step if it is due, and not at all otherwise.
C23_ReentrantRegistrationOnce ==
    [][\A x \in Reentered :
          nodes'[x].fCalls + nodes'[x].rCalls = IF Due(x) THEN 1 ELSE 0]_vars

\* a step in which the throwing onRejected of child c ran after c had been
\* resolved by its parent
HandlerThrew(c) ==
    /\ c \in Ids /\ Parent(c) # 0
    /\ nodes[c].onR.k = "throw"
    /\ nodes'[c].rCalls > nodes[c].rCalls
    /\ nodes'[c].fCalls > nodes[c].fCalls

\* a parent that is fulfilled by a value of its own: it has no handler and
\* its callback, if any, returns nothing or a plain value
FulfilledByValue(P) ==
    /\ nodes[P].onR.k = "none"
    /\ nodes[P].onF.k \in {"none", "ret"} /\ ~IsPromise(nodes[P].onF.v)
    /\ nodes[P].state = "Fulfilled" \/ Settles(P)

\* child d was resolved once with v in a step
ResolvedOnceWith(d, v) ==
    IF HasCallback(d)
    THEN nodes'[d].fCalls = nodes[d].fCalls + 1 /\ nodes'[d].fArg = v
    ELSE nodes'[d].state = "Fulfilled" /\ nodes'[d].result = v

\* C24: failure isolation, every root being settled by one resolve call.
\* In a step in which the throwing onRejected of a child c of a fulfilled
\* parent P ran, P is Fulfilled afterwards, with the result and reason it
\* had (if it was Fulfilled before the step) or was resolved with (if the
\* step fulfils it), and in a step that fulfils P each of P's children is
\* resolved once with P's value.
C24_FailureIsolated ==
    [][\A c \in Ids :
          LET P == Parent(c)
          IN  (HandlerThrew(c) /\ FulfilledByValue(P))
              => /\ nodes'[P].state = "Fulfilled"
                 /\ nodes'[P].reason = nodes[P].reason
                 /\ nodes[P].state = "Fulfilled"
                       => nodes'[P].result = nodes[P].result
                 /\ Settles(P)
                       => \A d \in Range(nodes[P].children) :
                             ResolvedOnceWith(d, nodes'[P].result)]_vars

\* child d was rejected with reason e in a step
RejectedWith(d, e) ==
    IF HasHandler(d)
    THEN nodes'[d].rCalls > nodes[d].rCalls /\ nodes'[d].rArg = e
    ELSE nodes'[d].state = "Rejected" /\ nodes'[d].reason = e

\* C25: handler exclusivity.  For a node built by then(f, h) with both
\* callbacks, no step invokes both f and h; in a step in which f ran and
\* threw, h is not invoked and the children registered on the node are
\* rejected with the message of the Error.
C25_HandlersExclusive ==
    [][\A c \in Ids :
          (/\ Parent(c) # 0 /\ HasCallback(c) /\ HasHandler(c)
           /\ nodes'[c].fCalls > nodes[c].fCalls)
          => /\ nodes'[c].rCalls = nodes[c].rCalls
             /\ nodes[c].onF.k = "throw"
                   => \A d \in Range(nodes[c].children) :
                         RejectedWith(d, ThrownMsg)]_vars
====
